---- MODULE Spec2Model ----
(***************************************************************************)
(* TwoCaptchaSolver (src/twocaptcha.py): a client that creates a Turnstile *)
(* task at the vendor (createTask), polls getTaskResult at most            *)
(* max_retries times and returns the token or raises                       *)
(* TwoCaptchaSolverError.                                                  *)
(*                                                                         *)
(* Python values are modelled as follows.  A JSON object is a record that  *)
(* has exactly the keys the object has; a request that raises (transport   *)
(* fault, timeout, body that is no JSON) is the record TransportFault.     *)
(* An Optional[str] is a sequence: None is <<>> and the string s is <<s>>. *)
(***************************************************************************)
EXTENDS Integers, Sequences, FiniteSets, TLC

(***************************************************************************)
(* Bounds of the model.                                                    *)
(***************************************************************************)
\* the largest max_retries a client is constructed with
MaxRetries == 3

(***************************************************************************)
(* Values the vendor and the caller can supply.                            *)
(***************************************************************************)
Calls == {"call1", "call2"}
MainCall == "call1"

\* the constructor checks neither number: both can be zero or negative
RetryIntervals == {-1, 0, 5}
RetryCounts == (-1) .. MaxRetries

TaskIds == {"", "abc123", "999"}
Tokens == {"", "TOKEN_XYZ", "TOKEN_ABC"}
Descriptions == {"ERROR_KEY_DOES_NOT_EXIST"}

TransportFault == [exception |-> "RequestException"]

\* the create response of the legacy in.php exchange: {status: 1, request: "999"}
LegacyCreated == [status |-> 1, request |-> "999"]

\* bodies of createTask responses
CreateResults ==
    {TransportFault}
    \cup {[errorId |-> e] : e \in {0, 1}}
    \cup {[errorId |-> e, taskId |-> t] : e \in {0, 1}, t \in TaskIds}
    \cup {[errorId |-> 1, errorDescription |-> d] : d \in Descriptions}
    \cup {[errorId |-> 1, errorDescription |-> d, taskId |-> "abc123"] : d \in Descriptions}
    \cup {[taskId |-> "abc123"]}
    \cup {LegacyCreated}

\* bodies of getTaskResult responses
PollResults ==
    {TransportFault}
    \cup {[errorId |-> e] : e \in {0, 1}}
    \cup {[errorId |-> e, status |-> s] : e \in {0, 1}, s \in {"processing", "unknown"}}
    \cup {[errorId |-> 1, errorDescription |-> d] : d \in Descriptions}
    \cup {[errorId |-> 1, errorDescription |-> d, status |-> "processing"] : d \in Descriptions}
    \cup {[errorId |-> e, status |-> "ready", solution |-> [token |-> t]] :
              e \in {-1, 0, 1}, t \in Tokens}
    \cup {[errorId |-> 0, status |-> "ready"]}
    \cup {[errorId |-> 0, status |-> "ready", solution |-> [userAgent |-> "Mozilla/5.0"]]}
    \cup {[status |-> "ready", solution |-> [token |-> t]] : t \in Tokens \ {""}}
    \cup {[status |-> "processing"]}

(***************************************************************************)
(* Python primitives.                                                      *)
(***************************************************************************)
None == <<>>
Some(v) == <<v>>

\* d.get(k) of a dict d
Get(d, k) == IF k \in DOMAIN d THEN Some(d[k]) ELSE None

\* variant: `x is None`
FalsyNoneOnly(x) == x = None

\* `not x` for x an Optional[str]
Falsy(x) == x = None \/ x = Some("")

\* the request raised inside the try block
Raised(result) == "exception" \in DOMAIN result

(***************************************************************************)
(* The messages of the TwoCaptchaSolverError solve raises, in English:     *)
(* line 71 "创建验证码任务失败" and line 76 "获取验证码结果失败".          *)
(***************************************************************************)
CreateFailedMessage == "create captcha task failed"
ResultFailedMessage == "get captcha result failed"

Raise(message) == [kind |-> "raise", error |-> "TwoCaptchaSolverError", message |-> message]
Return(value) == [kind |-> "return", value |-> value]
Running == [kind |-> "running"]

(***************************************************************************)
(* _create_task: the value returned for one createTask response.           *)
(***************************************************************************)
\* variant: the taskId is taken whatever errorId says
create_task_ignoring_errorId(result) ==
    IF Raised(result) THEN None ELSE Get(result, "taskId")

\* variant: the legacy shape {status: 1, request: id} is accepted as well
create_task_accepting_legacy(result) ==
    IF Raised(result) THEN None
    ELSE IF Get(result, "errorId") = Some(0) THEN Get(result, "taskId")
    ELSE IF Get(result, "status") = Some(1) THEN Get(result, "request")
    ELSE None

create_task(result) ==
    IF Raised(result) THEN None
    ELSE IF Get(result, "errorId") = Some(0) THEN Get(result, "taskId")
    ELSE None

(***************************************************************************)
(* _get_task_result: what one iteration of the loop does with a response.  *)
(***************************************************************************)
\* result.get("errorId") > 0 raises TypeError when the key is missing
ErrorIdRaises(result) == "errorId" \notin DOMAIN result

\* variant: errorId > 1
ErrorIdPositiveOffByOne(result) == result.errorId > 1

ErrorIdPositive(result) == result.errorId > 0

\* variant: the wrong key of the solution is read
SolutionTokenWrongKey(result) ==
    IF "solution" \in DOMAIN result THEN Get(result.solution, "userAgent") ELSE None

\* result.get("solution", {}).get("token")
SolutionToken(result) ==
    IF "solution" \in DOMAIN result THEN Get(result.solution, "token") ELSE None

StatusIs(result, s) == Get(result, "status") = Some(s)

\* variant: the ready branch lacks its return
get_task_result_step_ready_falls_through(result) ==
    IF Raised(result) THEN [do |-> "return", value |-> None]
    ELSE IF ErrorIdRaises(result) THEN [do |-> "return", value |-> None]
    ELSE IF ErrorIdPositive(result) THEN [do |-> "return", value |-> None]
    ELSE IF StatusIs(result, "ready") THEN [do |-> "next"]
    ELSE IF StatusIs(result, "processing") THEN [do |-> "sleep"]
    ELSE [do |-> "next"]

\* variant: the except clause continues with the next attempt
get_task_result_step_retry_on_exception(result) ==
    IF Raised(result) THEN [do |-> "next"]
    ELSE IF ErrorIdRaises(result) THEN [do |-> "next"]
    ELSE IF ErrorIdPositive(result) THEN [do |-> "return", value |-> None]
    ELSE IF StatusIs(result, "ready") THEN [do |-> "return", value |-> SolutionToken(result)]
    ELSE IF StatusIs(result, "processing") THEN [do |-> "sleep"]
    ELSE [do |-> "next"]

\* variant: a processing response goes on to the next attempt without the sleep
get_task_result_step_without_sleep(result) ==
    IF Raised(result) THEN [do |-> "return", value |-> None]
    ELSE IF ErrorIdRaises(result) THEN [do |-> "return", value |-> None]
    ELSE IF ErrorIdPositive(result) THEN [do |-> "return", value |-> None]
    ELSE IF StatusIs(result, "ready") THEN [do |-> "return", value |-> SolutionToken(result)]
    ELSE [do |-> "next"]

\* variant: a status that is neither ready nor processing sleeps as well
get_task_result_step_sleep_on_unknown(result) ==
    IF Raised(result) THEN [do |-> "return", value |-> None]
    ELSE IF ErrorIdRaises(result) THEN [do |-> "return", value |-> None]
    ELSE IF ErrorIdPositive(result) THEN [do |-> "return", value |-> None]
    ELSE IF StatusIs(result, "ready") THEN [do |-> "return", value |-> SolutionToken(result)]
    ELSE [do |-> "sleep"]

\* variant: result.get("errorId", 0) > 0, a missing errorId counts as 0
get_task_result_step_errorId_default(result) ==
    IF Raised(result) THEN [do |-> "return", value |-> None]
    ELSE IF ~ErrorIdRaises(result) /\ ErrorIdPositive(result)
        THEN [do |-> "return", value |-> None]
    ELSE IF StatusIs(result, "ready") THEN [do |-> "return", value |-> SolutionToken(result)]
    ELSE IF StatusIs(result, "processing") THEN [do |-> "sleep"]
    ELSE [do |-> "next"]

\* [do |-> "return", value |-> v]: return v;  "sleep": time.sleep then continue;
\* "next": fall through to the next iteration
get_task_result_step(result) ==
    IF Raised(result) THEN [do |-> "return", value |-> None]
    ELSE IF ErrorIdRaises(result) THEN [do |-> "return", value |-> None]
    ELSE IF ErrorIdPositive(result) THEN [do |-> "return", value |-> None]
    ELSE IF StatusIs(result, "ready") THEN [do |-> "return", value |-> SolutionToken(result)]
    ELSE IF StatusIs(result, "processing") THEN [do |-> "sleep"]
    ELSE [do |-> "next"]

\* line 177: time.sleep raises ValueError for a negative length, inside the try
SleepRaises(secs) == secs < 0

\* variant: a sentinel string is returned when the attempts are used up
ExhaustedValueSentinel == Some("TIMEOUT")

\* line 187: the value returned when the loop ends without a return
ExhaustedValue == None

\* variant: the loop body runs once before the bound is looked at
HasNextAttemptAtLeastOnce(attempt_, max_retries_) ==
    attempt_ = 0 \/ attempt_ + 1 <= max_retries_

\* variant: range(1, max_retries + 2)
HasNextAttemptOffByOne(attempt_, max_retries_) == attempt_ + 1 <= max_retries_ + 1

\* the for statement: range(1, max_retries + 1) has another element after `attempt`
HasNextAttempt(attempt_, max_retries_) == attempt_ + 1 <= max_retries_

(***************************************************************************)
(* solve: what it yields after each helper returned.                       *)
(***************************************************************************)
\* variant: the creation failure raises the message of the polling failure
SolveAfterCreateWrongMessage(task) ==
    IF Falsy(task) THEN Raise(ResultFailedMessage) ELSE Running

\* lines 70-71: `if not task_id: raise`; Running when solve goes on
SolveAfterCreate(task) ==
    IF Falsy(task) THEN Raise(CreateFailedMessage) ELSE Running

\* variant: a failed creation is tried again
AfterCreateRetrying(task) == IF Falsy(task) THEN "start" ELSE "loop"

\* lines 70-74: where solve goes after _create_task returned
AfterCreate(task) == IF Falsy(task) THEN "done" ELSE "loop"

\* variant: `if token is None` instead of `if not token`
SolveAfterPollNoneOnly(token) ==
    IF token = None THEN Raise(ResultFailedMessage) ELSE Return(token[1])

\* lines 75-81: `if not token: raise`, else return token
SolveAfterPoll(token) ==
    IF Falsy(token) THEN Raise(ResultFailedMessage) ELSE Return(token[1])

(***************************************************************************)
(* State.                                                                  *)
(***************************************************************************)
VARIABLES
    max_retries,      \* self.max_retries
    retry_interval,   \* self.retry_interval
    pc,               \* per call: where the call is
    task_id,          \* per call: solve's task_id (Optional)
    attempt,          \* per call: the loop variable of _get_task_result
    outcome,          \* per call: what solve yielded
    trace             \* per call: the requests, responses and sleeps so far

vars == <<max_retries, retry_interval, pc, task_id, attempt, outcome, trace>>

Init ==
    /\ max_retries \in RetryCounts
    /\ retry_interval \in RetryIntervals
    /\ pc = [c \in Calls |-> "start"]
    /\ task_id = [c \in Calls |-> None]
    /\ attempt = [c \in Calls |-> 0]
    /\ outcome = [c \in Calls |-> Running]
    /\ trace = [c \in Calls |-> <<>>]

Log(c, events) == trace' = [trace EXCEPT ![c] = @ \o events]

\* variant: the task id is kept in one place shared by the calls of the client
RequestTaskIdShared(c) ==
    task_id[CHOOSE other \in Calls : task_id[other] # None][1]

\* lines 140-143: the taskId of the request body is the call's own argument
RequestTaskId(c) == task_id[c][1]

\* solve line 69 -> _create_task line 110: the createTask request is sent
CreateRequest(c) ==
    /\ pc[c] = "start"
    /\ pc' = [pc EXCEPT ![c] = "creating"]
    /\ Log(c, <<[ev |-> "createTask"]>>)
    /\ UNCHANGED <<max_retries, retry_interval, task_id, attempt, outcome>>

\* _create_task lines 116-135 and solve lines 69-74
CreateResponse(c, result) ==
    /\ pc[c] = "creating"
    /\ Log(c, <<[ev |-> "createResponse", result |-> result]>>)
    /\ task_id' = [task_id EXCEPT ![c] = create_task(result)]
    /\ pc' = [pc EXCEPT ![c] = AfterCreate(create_task(result))]
    /\ outcome' = [outcome EXCEPT ![c] = SolveAfterCreate(create_task(result))]
    /\ UNCHANGED <<max_retries, retry_interval, attempt>>

\* _get_task_result lines 145-155: the next attempt sends getTaskResult
PollRequest(c) ==
    /\ pc[c] = "loop"
    /\ HasNextAttempt(attempt[c], max_retries)
    /\ attempt' = [attempt EXCEPT ![c] = @ + 1]
    /\ pc' = [pc EXCEPT ![c] = "polling"]
    /\ Log(c, <<[ev |-> "getTaskResult", taskId |-> RequestTaskId(c)]>>)
    /\ UNCHANGED <<max_retries, retry_interval, task_id, outcome>>

\* _get_task_result lines 185-187 and solve lines 75-76: the range is exhausted
RetriesExhausted(c) ==
    /\ pc[c] = "loop"
    /\ ~HasNextAttempt(attempt[c], max_retries)
    /\ pc' = [pc EXCEPT ![c] = "done"]
    /\ outcome' = [outcome EXCEPT ![c] = SolveAfterPoll(ExhaustedValue)]
    /\ UNCHANGED <<max_retries, retry_interval, task_id, attempt, trace>>

\* _get_task_result lines 156-183 and solve lines 74-81
PollResponse(c, result) ==
    /\ pc[c] = "polling"
    /\ LET step == get_task_result_step(result)
           got == [ev |-> "pollResponse", result |-> result]
       IN  CASE step.do = "return" ->
                  /\ pc' = [pc EXCEPT ![c] = "done"]
                  /\ outcome' = [outcome EXCEPT ![c] = SolveAfterPoll(step.value)]
                  /\ Log(c, <<got>>)
             [] step.do = "sleep" /\ ~SleepRaises(retry_interval) ->
                  /\ pc' = [pc EXCEPT ![c] = "sleeping"]
                  /\ Log(c, <<got, [ev |-> "sleep", secs |-> retry_interval]>>)
                  /\ UNCHANGED outcome
             [] step.do = "sleep" /\ SleepRaises(retry_interval) ->
                  /\ pc' = [pc EXCEPT ![c] = "done"]
                  /\ outcome' = [outcome EXCEPT ![c] = SolveAfterPoll(None)]
                  /\ Log(c, <<got>>)
             [] step.do = "next" ->
                  /\ pc' = [pc EXCEPT ![c] = "loop"]
                  /\ Log(c, <<got>>)
                  /\ UNCHANGED outcome
    /\ UNCHANGED <<max_retries, retry_interval, task_id, attempt>>

\* _get_task_result lines 177-178: time.sleep returned, continue
WakeUp(c) ==
    /\ pc[c] = "sleeping"
    /\ pc' = [pc EXCEPT ![c] = "loop"]
    /\ UNCHANGED <<max_retries, retry_interval, task_id, attempt, outcome, trace>>

\* one solve call on the client
Next ==
    \/ CreateRequest(MainCall)
    \/ \E result \in CreateResults : CreateResponse(MainCall, result)
    \/ PollRequest(MainCall)
    \/ RetriesExhausted(MainCall)
    \/ \E result \in PollResults : PollResponse(MainCall, result)
    \/ WakeUp(MainCall)

Spec == Init /\ [][Next]_vars

\* one solve call that keeps running: the interpreter takes its next step and
\* every request in flight gets its response or its fault
SpecLive == Init /\ [][Next]_vars /\ WF_vars(Next)

\* the responses of the calls that run side by side
ConcCreateResults ==
    {TransportFault,
     [errorId |-> 0, taskId |-> "abc123"],
     [errorId |-> 0, taskId |-> "999"],
     [errorId |-> 1, errorDescription |-> "ERROR_KEY_DOES_NOT_EXIST"]}

ConcPollResults ==
    {TransportFault,
     [errorId |-> 0, status |-> "processing"],
     [errorId |-> 0, status |-> "ready", solution |-> [token |-> "TOKEN_XYZ"]],
     [errorId |-> 1, errorDescription |-> "ERROR_KEY_DOES_NOT_EXIST"]}

\* several solve calls on one client, interleaved in any order
NextConc ==
    \E c \in Calls :
        \/ CreateRequest(c)
        \/ \E result \in ConcCreateResults : CreateResponse(c, result)
        \/ PollRequest(c)
        \/ RetriesExhausted(c)
        \/ \E result \in ConcPollResults : PollResponse(c, result)
        \/ WakeUp(c)

SpecConc == Init /\ [][NextConc]_vars

(***************************************************************************)
(* What a call has done so far, read from its trace.                       *)
(***************************************************************************)
IsEvent(e, name) == e.ev = name

PollRequests(c) == SelectSeq(trace[c], LAMBDA e : IsEvent(e, "getTaskResult"))
PollEvents(c) == SelectSeq(trace[c], LAMBDA e : IsEvent(e, "pollResponse"))
CreateEvents(c) == SelectSeq(trace[c], LAMBDA e : IsEvent(e, "createResponse"))
Sleeps(c) == SelectSeq(trace[c], LAMBDA e : IsEvent(e, "sleep"))

NumPolls(c) == Len(PollRequests(c))
NumResponses(c) == Len(PollEvents(c))
PollResult(c, i) == PollEvents(c)[i].result
LastPollResult(c) == PollResult(c, NumResponses(c))
LastEvent(c) == trace[c][Len(trace[c])]

\* the configuration the data model allows: maxRetries >= 1 and
\* retryIntervalSeconds >= 0
ValidConfig == max_retries >= 1 /\ retry_interval >= 0

\* the vendor's indicators (Variant B of the external interface)
Accepted(result) ==
    /\ ~Raised(result)
    /\ Get(result, "errorId") = Some(0)
    /\ ~Falsy(Get(result, "taskId"))
Rejected(result) ==
    /\ ~Raised(result)
    /\ "errorId" \in DOMAIN result
    /\ result.errorId > 0
Pending(result) ==
    /\ ~Raised(result)
    /\ Get(result, "errorId") = Some(0)
    /\ Get(result, "status") = Some("processing")
Ready(result) ==
    /\ ~Raised(result)
    /\ Get(result, "errorId") = Some(0)
    /\ Get(result, "status") = Some("ready")
    /\ "solution" \in DOMAIN result
    /\ "token" \in DOMAIN result.solution
    /\ result.solution.token # ""

CreateAccepted(c) == Len(CreateEvents(c)) = 1 /\ Accepted(CreateEvents(c)[1].result)
CreateRejected(c) == Len(CreateEvents(c)) = 1 /\ Rejected(CreateEvents(c)[1].result)

\* the first n poll responses of call c were all Pending
PendingUpTo(c, n) == \A i \in 1 .. n : Pending(PollResult(c, i))
AllPending(c) == PendingUpTo(c, NumResponses(c))

\* Pending on attempts 1..k-1 and Ready on attempt k, the last response so far
ReadyAfterPending(c) ==
    /\ NumResponses(c) >= 1
    /\ Ready(LastPollResult(c))
    /\ PendingUpTo(c, NumResponses(c) - 1)

(***************************************************************************)
(* Claims.                                                                 *)
(***************************************************************************)

\* C1: when the create-task response is accepted and poll attempt k returns
\* "ready" with a non-empty token after k-1 "processing" responses, solve
\* returns exactly the token of that response.
C1_ReturnsVendorToken ==
    \A c \in Calls :
        (CreateAccepted(c) /\ ReadyAfterPending(c))
            => /\ NumResponses(c) <= max_retries
               /\ outcome[c] = Return(LastPollResult(c).solution.token)

C1_Witness ==
    /\ CreateAccepted(MainCall)
    /\ ReadyAfterPending(MainCall)
    /\ NumResponses(MainCall) = 3
    /\ outcome[MainCall] = Return("TOKEN_ABC")

\* C2: when the create-task response carries errorId > 0, solve fails with
\* the creation failure and no getTaskResult request is ever issued.
C2_RejectedNeverPolls ==
    \A c \in Calls :
        CreateRejected(c)
            => /\ pc[c] = "done"
               /\ outcome[c] = Raise(CreateFailedMessage)
               /\ NumPolls(c) = 0
               /\ IsEvent(LastEvent(c), "createResponse")

C2_Witness ==
    /\ CreateRejected(MainCall)
    /\ "taskId" \in DOMAIN CreateEvents(MainCall)[1].result
    /\ pc[MainCall] = "done"

\* C3: when every poll response is Pending, solve never issues more than
\* max_retries poll requests, and it ends, in failure, only after exactly
\* max_retries of them (for max_retries >= 1 and a retry interval >= 0).
C3_PendingPollsExactlyMaxRetries ==
    \A c \in Calls :
        (ValidConfig /\ CreateAccepted(c) /\ AllPending(c))
            => /\ NumPolls(c) <= max_retries
               /\ pc[c] = "done" =>
                    /\ NumPolls(c) = max_retries
                    /\ NumResponses(c) = max_retries
                    /\ outcome[c].kind = "raise"

C3_Witness ==
    /\ max_retries = 3
    /\ CreateAccepted(MainCall)
    /\ AllPending(MainCall)
    /\ NumResponses(MainCall) = 3
    /\ pc[MainCall] = "done"

\* C4: when polling stays Pending for all max_retries attempts, exactly
\* max_retries - 1 sleeps occur and no sleep follows the last poll request.
C4_NoSleepAfterFinalAttempt ==
    \A c \in Calls :
        (ValidConfig /\ CreateAccepted(c) /\ AllPending(c) /\ pc[c] = "done")
            => /\ Len(Sleeps(c)) = max_retries - 1
               /\ ~IsEvent(LastEvent(c), "sleep")

\* call c used up its attempts: every one of its max_retries polls was Pending
TimedOut(c) ==
    /\ pc[c] = "done"
    /\ ValidConfig
    /\ CreateAccepted(c)
    /\ NumResponses(c) = max_retries
    /\ AllPending(c)

\* call c failed on a vendor error or a transport fault during polling
PollingFailed(c) ==
    /\ pc[c] = "done"
    /\ NumResponses(c) >= 1
    /\ \/ Raised(LastPollResult(c))
       \/ Rejected(LastPollResult(c))

\* call c failed in the creation phase
CreationFailed(c) ==
    /\ pc[c] = "done"
    /\ Len(CreateEvents(c)) = 1
    /\ ~CreateAccepted(c)

C6_ReadyStopsPolling ==
    \A c \in Calls :
        (CreateAccepted(c) /\ ReadyAfterPending(c))
            => /\ pc[c] = "done"
               /\ NumPolls(c) = NumResponses(c)
               /\ attempt[c] = NumResponses(c)
               /\ IsEvent(LastEvent(c), "pollResponse")

C6_Witness ==
    /\ max_retries = 3
    /\ CreateAccepted(MainCall)
    /\ ReadyAfterPending(MainCall)
    /\ NumPolls(MainCall) = 2
    /\ pc[MainCall] = "done"

\* C7: a transport fault on poll attempt k ends solve at once with the
\* polling failure: exactly k poll requests were issued, nothing follows, and
\* the attempts k+1..max_retries are not made.
C7_FaultEndsPolling ==
    \A c \in Calls :
        (NumResponses(c) >= 1 /\ Raised(LastPollResult(c)))
            => /\ pc[c] = "done"
               /\ outcome[c] = Raise(ResultFailedMessage)
               /\ NumPolls(c) = NumResponses(c)
               /\ attempt[c] = NumResponses(c)
               /\ IsEvent(LastEvent(c), "pollResponse")

C7_Witness ==
    /\ max_retries = 3
    /\ NumResponses(MainCall) = 2
    /\ Raised(LastPollResult(MainCall))
    /\ pc[MainCall] = "done"

\* C8: solve ends either by returning a non-empty token, the one of a
\* "ready" poll response, or by raising; it yields nothing before it ends
\* and never an empty or missing token.
C8_TokenOrError ==
    \A c \in Calls :
        /\ pc[c] # "done" => outcome[c] = Running
        /\ pc[c] = "done" =>
              \/ outcome[c].kind = "raise"
              \/ /\ outcome[c].kind = "return"
                 /\ outcome[c].value \in Tokens \ {""}
                 /\ NumResponses(c) >= 1
                 /\ StatusIs(LastPollResult(c), "ready")
                 /\ SolutionToken(LastPollResult(c)) = Some(outcome[c].value)

C8_Witness ==
    /\ pc[MainCall] = "done"
    /\ NumResponses(MainCall) >= 1
    /\ LastPollResult(MainCall) = [errorId |-> 0, status |-> "ready", solution |-> [token |-> ""]]
    /\ outcome[MainCall].kind = "raise"

\* the response carries errorId > 0, or status "ready" without a token
FailedIndicator(result) ==
    /\ ~Raised(result)
    /\ \/ Rejected(result)
       \/ /\ Get(result, "status") = Some("ready")
          /\ \/ "solution" \notin DOMAIN result
             \/ "token" \notin DOMAIN result.solution

\* C9: a poll response with errorId > 0, or with status "ready" and no
\* token, makes solve fail on that attempt: no sleep and no poll request
\* follows it.
C9_FailedIndicatorEndsPolling ==
    \A c \in Calls :
        (NumResponses(c) >= 1 /\ FailedIndicator(LastPollResult(c)))
            => /\ pc[c] = "done"
               /\ outcome[c] = Raise(ResultFailedMessage)
               /\ NumPolls(c) = NumResponses(c)
               /\ IsEvent(LastEvent(c), "pollResponse")

C9_Witness ==
    /\ max_retries = 3
    /\ NumResponses(MainCall) = 1
    /\ LastPollResult(MainCall) = [errorId |-> 1, status |-> "processing"]
    /\ pc[MainCall] = "done"

\* the errorDescription of the response that ended the call, if it has one
VendorDescription(c) ==
    IF /\ Len(trace[c]) >= 1
       /\ LastEvent(c).ev \in {"createResponse", "pollResponse"}
    THEN Get(LastEvent(c).result, "errorDescription")
    ELSE None

\* the message that names the phase in which call c failed
PhaseMessage(c) ==
    IF CreateAccepted(c) THEN ResultFailedMessage ELSE CreateFailedMessage

OwnTaskId(c) ==
    \A i \in 1 .. NumPolls(c) :
        /\ Len(CreateEvents(c)) = 1
        /\ Get(CreateEvents(c)[1].result, "taskId") = Some(PollRequests(c)[i].taskId)

\* call c's loop variable counts c's own poll requests, up to max_retries
OwnAttempts(c) ==
    /\ attempt[c] = NumPolls(c)
    /\ attempt[c] = 0 \/ attempt[c] <= max_retries

\* C12: under any interleaving of the solve calls of one client, every poll
\* request carries the taskId of the same call's create response, every call
\* counts its own attempts up to max_retries, and no step of solve writes the
\* configuration.
C12_CallLocalState ==
    /\ [](\A c \in Calls : OwnTaskId(c) /\ OwnAttempts(c))
    /\ [][max_retries' = max_retries /\ retry_interval' = retry_interval]_vars

C12_Witness ==
    /\ NumPolls("call1") = 2
    /\ NumPolls("call2") = 1
    /\ pc["call1"] = "polling"
    /\ pc["call2"] = "polling"
    /\ PollRequests("call1")[2].taskId # PollRequests("call2")[1].taskId

\* the requests and responses of call c, in order, without the sleeps
Exchange(c) == SelectSeq(trace[c], LAMBDA e : ~IsEvent(e, "sleep"))

\* the number of requests of call c that have no response yet
InFlight(c) ==
    Len(SelectSeq(trace[c], LAMBDA e : e.ev \in {"createTask", "getTaskResult"}))
        - Len(SelectSeq(trace[c], LAMBDA e : e.ev \in {"createResponse", "pollResponse"}))

\* C13: the requests of one solve call are strictly sequential: one
\* createTask request at most and never a second one, its response before
\* the first poll request, every poll response before the next poll request,
\* so that at most one request of the call is in flight.
C13_RequestsSequential ==
    \A c \in Calls :
        /\ \A i \in 1 .. Len(Exchange(c)) :
              Exchange(c)[i].ev =
                  IF i = 1 THEN "createTask"
                  ELSE IF i = 2 THEN "createResponse"
                  ELSE IF i % 2 = 1 THEN "getTaskResult"
                  ELSE "pollResponse"
        /\ InFlight(c) = (IF pc[c] \in {"creating", "polling"} THEN 1 ELSE 0)
        /\ pc[c] # "start" => Len(trace[c]) >= 1
        /\ (Len(CreateEvents(c)) = 1 /\ Raised(CreateEvents(c)[1].result))
              => pc[c] = "done" /\ Len(Exchange(c)) = 2

C13_Witness ==
    /\ pc[MainCall] = "polling"
    /\ NumPolls(MainCall) = 3
    /\ NumResponses(MainCall) = 2
    /\ InFlight(MainCall) = 1

\* every sleep of call c lasts retry_interval and stands between a poll
\* response and the next poll request
SleepsBetweenPolls(c) ==
    \A i \in 1 .. Len(trace[c]) :
        IsEvent(trace[c][i], "sleep")
            => /\ trace[c][i].secs = retry_interval
               /\ i > 1 /\ IsEvent(trace[c][i - 1], "pollResponse")
               /\ i < Len(trace[c]) /\ IsEvent(trace[c][i + 1], "getTaskResult")

\* C14: when Ready arrives on poll attempt k after k-1 Pending responses,
\* exactly k-1 sleeps of retry_interval have occurred, each one between two
\* consecutive poll requests (create accepted, poll 1 processing, poll 2
\* ready: 2 poll requests and one sleep).
C14_SleepsBetweenAttempts ==
    \A c \in Calls :
        (CreateAccepted(c) /\ ReadyAfterPending(c))
            => /\ NumPolls(c) = NumResponses(c)
               /\ Len(Sleeps(c)) = NumResponses(c) - 1
               /\ SleepsBetweenPolls(c)

C14_Witness ==
    /\ retry_interval = 5
    /\ trace[MainCall] =
          << [ev |-> "createTask"],
             [ev |-> "createResponse", result |-> [errorId |-> 0, taskId |-> "abc123"]],
             [ev |-> "getTaskResult", taskId |-> "abc123"],
             [ev |-> "pollResponse", result |-> [errorId |-> 0, status |-> "processing"]],
             [ev |-> "sleep", secs |-> 5],
             [ev |-> "getTaskResult", taskId |-> "abc123"],
             [ev |-> "pollResponse",
              result |-> [errorId |-> 0, status |-> "ready",
                          solution |-> [token |-> "TOKEN_XYZ"]]] >>
    /\ outcome[MainCall] = Return("TOKEN_XYZ")

\* the terminal states of a call
EndedCreationFailed(c) == outcome[c] = Raise(CreateFailedMessage)
EndedReady(c) ==
    /\ outcome[c].kind = "return"
    /\ IsEvent(LastEvent(c), "pollResponse")
EndedFailed(c) ==
    /\ outcome[c] = Raise(ResultFailedMessage)
    /\ IsEvent(LastEvent(c), "pollResponse")
    /\ get_task_result_step(LastEvent(c).result).do # "next"
EndedTimeout(c) ==
    /\ outcome[c] = Raise(ResultFailedMessage)
    /\ ~HasNextAttempt(attempt[c], max_retries)
    /\ \/ IsEvent(LastEvent(c), "sleep")
       \/ IsEvent(LastEvent(c), "createResponse")
       \/ /\ IsEvent(LastEvent(c), "pollResponse")
          /\ get_task_result_step(LastEvent(c).result).do = "next"

TerminalStates(c) ==
    {k \in {"CreationFailed", "Ready", "Failed", "Timeout"} :
        \/ k = "CreationFailed" /\ EndedCreationFailed(c)
        \/ k = "Ready" /\ EndedReady(c)
        \/ k = "Failed" /\ EndedFailed(c)
        \/ k = "Timeout" /\ EndedTimeout(c)}

\* a call that is done is in exactly one terminal state, reached with one
\* createTask request and at most max_retries poll requests
TerminalOnce(c) ==
    pc[c] = "done" =>
        /\ Cardinality(TerminalStates(c)) = 1
        /\ Len(SelectSeq(trace[c], LAMBDA e : IsEvent(e, "createTask"))) = 1
        /\ NumPolls(c) = 0 \/ NumPolls(c) <= max_retries

\* a call that is done takes no further step
StaysTerminal(c) ==
    pc[c] = "done" =>
        /\ pc'[c] = pc[c]
        /\ outcome'[c] = outcome[c]
        /\ trace'[c] = trace[c]
        /\ attempt'[c] = attempt[c]
        /\ task_id'[c] = task_id[c]

\* C15: when every request gets its response or its fault, the solve call
\* eventually reaches exactly one of the terminal states CreationFailed,
\* Ready, Failed and Timeout, after one create request and at most
\* max_retries poll requests, and takes no step after that.
C15_ReachesOneTerminalState ==
    /\ <>(pc[MainCall] = "done")
    /\ [](\A c \in Calls : TerminalOnce(c))
    /\ [][\A c \in Calls : StaysTerminal(c)]_vars

C15_Witness ==
    /\ pc[MainCall] = "done"
    /\ max_retries = 3
    /\ NumPolls(MainCall) = 3
    /\ TerminalStates(MainCall) = {"Timeout"}

\* errorId 0 with a status that is neither "ready" nor "processing"
UnknownStatus(result) ==
    /\ ~Raised(result)
    /\ Get(result, "errorId") = Some(0)
    /\ Get(result, "status") \notin {Some("ready"), Some("processing")}

AllUnknownStatus(c) == \A i \in 1 .. NumResponses(c) : UnknownStatus(PollResult(c, i))

\* C16: a poll response with errorId 0 and a status that is neither "ready"
\* nor "processing" does not end the call: it uses up one attempt and the
\* next poll request follows with no sleep in between; when every response
\* is of this kind solve fails after exactly max_retries poll requests and
\* no sleep.
C16_UnknownStatusRetriesWithoutSleep ==
    \A c \in Calls :
        /\ \A i \in 1 .. Len(trace[c]) :
              (IsEvent(trace[c][i], "pollResponse") /\ UnknownStatus(trace[c][i].result))
                  => IF i < Len(trace[c])
                     THEN IsEvent(trace[c][i + 1], "getTaskResult")
                     ELSE \/ pc[c] = "loop" /\ outcome[c] = Running
                          \/ pc[c] = "done" /\ attempt[c] = max_retries
        /\ (max_retries >= 1 /\ CreateAccepted(c) /\ AllUnknownStatus(c))
              => /\ Len(Sleeps(c)) = 0
                 /\ NumPolls(c) <= max_retries
                 /\ pc[c] = "done" =>
                       /\ NumPolls(c) = max_retries
                       /\ outcome[c] = Raise(ResultFailedMessage)

C16_Witness ==
    /\ max_retries = 3
    /\ CreateAccepted(MainCall)
    /\ AllUnknownStatus(MainCall)
    /\ NumResponses(MainCall) = 3
    /\ PollResult(MainCall, 1) = [errorId |-> 0]
    /\ PollResult(MainCall, 2) = [errorId |-> 0, status |-> "unknown"]
    /\ pc[MainCall] = "done"

\* C17: a poll response without errorId makes solve fail on that attempt,
\* with no further poll request, also when it has status "ready" and a
\* token; a token is returned only from a response whose errorId is present
\* and not greater than 0.
C17_MissingErrorIdFails ==
    \A c \in Calls :
        /\ (/\ NumResponses(c) >= 1
            /\ ~Raised(LastPollResult(c))
            /\ "errorId" \notin DOMAIN LastPollResult(c))
              => /\ pc[c] = "done"
                 /\ outcome[c] = Raise(ResultFailedMessage)
                 /\ NumPolls(c) = NumResponses(c)
                 /\ IsEvent(LastEvent(c), "pollResponse")
        /\ outcome[c].kind = "return"
              => /\ NumResponses(c) >= 1
                 /\ "errorId" \in DOMAIN LastPollResult(c)
                 /\ LastPollResult(c).errorId <= 0

C17_Witness ==
    /\ max_retries = 3
    /\ NumResponses(MainCall) = 1
    /\ LastPollResult(MainCall) = [status |-> "ready", solution |-> [token |-> "TOKEN_XYZ"]]
    /\ outcome[MainCall] = Raise(ResultFailedMessage)

\* C18: a create response with errorId 0 and no taskId, or an empty one,
\* makes solve fail with the creation failure and issue no poll request;
\* every poll request carries a non-empty taskId, the one of the create
\* response.
C18_NoTaskIdFailsCreation ==
    \A c \in Calls :
        /\ (/\ Len(CreateEvents(c)) = 1
            /\ ~Raised(CreateEvents(c)[1].result)
            /\ Get(CreateEvents(c)[1].result, "errorId") = Some(0)
            /\ Get(CreateEvents(c)[1].result, "taskId") \in {None, Some("")})
              => /\ pc[c] = "done"
                 /\ outcome[c] = Raise(CreateFailedMessage)
                 /\ NumPolls(c) = 0
        /\ \A i \in 1 .. NumPolls(c) :
              /\ PollRequests(c)[i].taskId # ""
              /\ Get(CreateEvents(c)[1].result, "taskId") = Some(PollRequests(c)[i].taskId)

C18_Witness ==
    /\ Len(CreateEvents(MainCall)) = 1
    /\ CreateEvents(MainCall)[1].result = [errorId |-> 0, taskId |-> ""]
    /\ pc[MainCall] = "done"

\* C19: max_retries is not checked by the constructor; with max_retries <= 0
\* solve still issues the createTask request, then issues no poll request
\* and fails with the polling failure, also when the task was created.
C19_NoAttemptsFailsPolling ==
    \A c \in Calls :
        max_retries <= 0
            => /\ NumPolls(c) = 0
               /\ pc[c] # "start" => IsEvent(trace[c][1], "createTask")
               /\ pc[c] \notin {"polling", "sleeping"}
               /\ (CreateAccepted(c) /\ pc[c] = "done")
                     => outcome[c] = Raise(ResultFailedMessage)
               /\ pc[c] = "done" => outcome[c].kind = "raise"

C19_Witness ==
    /\ max_retries = -1
    /\ CreateAccepted(MainCall)
    /\ pc[MainCall] = "done"
    /\ Len(trace[MainCall]) = 2
    /\ outcome[MainCall] = Raise(ResultFailedMessage)

====
